---- MODULE Spec2Model ----
(***************************************************************************)
(* Model of the notebook smd_handson_fitting.ipynb: the linear least       *)
(* squares functions (design_matrix, solve_linear_least_squares,           *)
(* chisquare_over_ndf, linear_least_squares) and the kernel globals they   *)
(* read, the curve_fit calls, the generic minimizer cells, the composite   *)
(* density, the muon histogram and the binned-fit cdf, and the run of the  *)
(* code cells from top to bottom.                                          *)
(*                                                                         *)
(* Numbers are exact rationals <<n, d>> (d > 0, lowest terms); a float     *)
(* division by zero yields <<1, 0>> (inf), <<-1, 0>> (-inf) or <<0, 0>>    *)
(* (nan) as numpy does.  A sample point k stands for x = k * pi / 2, where *)
(* np.sin and np.cos take the exact values 0, 1, -1.                       *)
(***************************************************************************)
EXTENDS Integers, Sequences, FiniteSets, TLC

\* ------------------------------------------------------------------ bounds
\* largest number of observations of a data set
MaxN == 2
\* largest number of basis functions of a linear model
MaxP == 2
\* the floating-point solves: largest number of observations, of basis functions, and
\* the largest entry of a design matrix
FlMaxN == 2
FlMaxP == 3
FlMaxEntry == 2
\* the generic minimizer: its iteration budget (maxiter), and the largest distance, in
\* grid steps of the mean, between the initial guess and the minimum of the likelihood
MaxIter == 2
MaxDist == 3
\* the binned fit: the largest number of lines (bins) of a count file
MaxBins == 9

\* ------------------------------------------------------- evaluation
\* F(v), with v evaluated once
Let(v, F(_)) == CHOOSE r \in {F(w) : w \in {v}} : TRUE

\* ------------------------------------------------------- rational numbers
Abs(n) == IF n < 0 THEN -n ELSE n

RECURSIVE GCD(_, _)
GCD(a, b) == IF b = 0 THEN a ELSE GCD(b, a % b)

\* the rational n / d, d # 0, in lowest terms with a positive denominator
Rat(n, d) ==
    IF d = 1 THEN <<n, 1>>
    ELSE Let(GCD(Abs(n), Abs(d)), LAMBDA g :
            IF d < 0 THEN <<(-n) \div g, (-d) \div g>> ELSE <<n \div g, d \div g>>)

R(n) == <<n, 1>>
Zero == R(0)
One == R(1)
IsFinite(a) == a[2] # 0
Sign(n) == IF n > 0 THEN 1 ELSE IF n < 0 THEN -1 ELSE 0
\* sums and products cancel common factors before they multiply
RAdd(a, b) == Let(<<a, b>>, LAMBDA t :
    IF t[1][2] = 1 /\ t[2][2] = 1 THEN <<t[1][1] + t[2][1], 1>>
    ELSE Let(GCD(t[1][2], t[2][2]), LAMBDA g :
            Rat(t[1][1] * (t[2][2] \div g) + t[2][1] * (t[1][2] \div g),
                (t[1][2] \div g) * t[2][2])))
RSub(a, b) == RAdd(a, <<-b[1], b[2]>>)
RMul(a, b) == Let(<<a, b>>, LAMBDA t :
    IF t[1][2] = 1 /\ t[2][2] = 1 THEN <<t[1][1] * t[2][1], 1>>
    ELSE Let(<<GCD(Abs(t[1][1]), t[2][2]), GCD(Abs(t[2][1]), t[1][2])>>, LAMBDA g :
            <<(t[1][1] \div g[1]) * (t[2][1] \div g[2]),
              (t[1][2] \div g[2]) * (t[2][2] \div g[1])>>))
\* numpy's float division: x / 0 is +-inf, 0 / 0 is nan (a warning, no exception)
RDiv(a, b) ==
    IF b[1] = 0 THEN <<Sign(a[1]), 0>>
    ELSE RMul(a, IF b[1] < 0 THEN <<-b[2], -b[1]>> ELSE <<b[2], b[1]>>)
RLess(a, b) == a[1] * b[2] < b[1] * a[2]

\* ------------------------------------------------------- arrays (numpy)
\* an array is a tuple of its elements (a matrix: the tuple of its rows)
Arr(f) == SubSeq(f, 1, Len(f))

RECURSIVE SumTo(_, _)
SumTo(s, n) == IF n = 0 THEN Zero ELSE RAdd(SumTo(s, n - 1), s[n])
\* np.sum of the elements of s
SumSeq(s) == Let(s, LAMBDA v : SumTo(v, Len(v)))

NRows(M) == Len(M)
NCols(M) == IF Len(M) = 0 THEN 0 ELSE Len(M[1])
\* M.T
Transpose(M) == Let(M, LAMBDA m :
    Arr([j \in 1..NCols(m) |-> Arr([i \in 1..NRows(m) |-> m[i][j]])]))
\* a @ b for two vectors
Dot(a, b) == Let(<<a, b>>, LAMBDA t :
    SumSeq(Arr([i \in 1..Len(t[1]) |-> RMul(t[1][i], t[2][i])])))
\* M1 @ M2 for two matrices
MatMul(M1, M2) == Let(<<M1, M2>>, LAMBDA t :
    Arr([i \in 1..NRows(t[1]) |-> Arr([j \in 1..NCols(t[2]) |->
        SumSeq(Arr([k \in 1..NCols(t[1]) |-> RMul(t[1][i][k], t[2][k][j])]))])]))
\* M @ v for a matrix and a vector
MatVec(M, v) == Let(<<M, v>>, LAMBDA t :
    Arr([i \in 1..NRows(t[1]) |-> Dot(t[1][i], t[2])]))
\* v @ M for a vector and a matrix
VecMat(v, M) == Let(<<v, M>>, LAMBDA t :
    Arr([j \in 1..NCols(t[2]) |->
        SumSeq(Arr([i \in 1..Len(t[1]) |-> RMul(t[1][i], t[2][i][j])]))]))
VecSub(a, b) == Let(<<a, b>>, LAMBDA t :
    Arr([i \in 1..Len(t[1]) |-> RSub(t[1][i], t[2][i])]))
\* np.eye(n)
Eye(n) == Arr([i \in 1..n |-> Arr([j \in 1..n |-> IF i = j THEN One ELSE Zero])])
\* np.diag(v) for a vector v
Diag(v) == Let(v, LAMBDA d :
    Arr([i \in 1..Len(d) |-> Arr([j \in 1..Len(d) |-> IF i = j THEN d[i] ELSE Zero])]))

DropAt(s, k) == Arr([i \in 1..(Len(s) - 1) |-> IF i < k THEN s[i] ELSE s[i + 1]])
Minor(M, r, c) == Arr([i \in 1..(NRows(M) - 1) |-> DropAt(IF i < r THEN M[i] ELSE M[i + 1], c)])
CofSign(i, j) == IF (i + j) % 2 = 0 THEN One ELSE R(-1)

\* the determinant, expanded along the first row
RECURSIVE Det(_)
Det(M) == Let(M, LAMBDA m :
    IF NRows(m) = 0 THEN One
    ELSE IF NRows(m) = 1 THEN m[1][1]
    ELSE SumSeq(Arr([j \in 1..NCols(m) |->
            RMul(RMul(CofSign(1, j), m[1][j]), Det(Minor(m, 1, j)))])))

\* np.linalg.inv(M) for a square M in exact arithmetic: the inverse, or
\* LinAlgError("Singular matrix")
Inv(M) == Let(M, LAMBDA m : Let(Det(m), LAMBDA d :
    IF d[1] = 0
    THEN [ok |-> FALSE, val |-> <<>>]
    ELSE [ok |-> TRUE,
          val |-> Arr([i \in 1..NRows(m) |-> Arr([j \in 1..NRows(m) |->
                     RDiv(RMul(CofSign(i, j), Det(Minor(m, j, i))), d)])])]))

\* ------------------------------------------------------- floating point
\* np.linalg.inv runs LAPACK's LU factorisation with partial pivoting in binary floating
\* point and raises LinAlgError only for a pivot that is exactly zero.  A float is
\* <<m, e>>, the number m * 2^e, with 2^(Mant-1) <= |m| < 2^Mant or m = e = 0; every
\* operation rounds to nearest, ties to even, as IEEE 754 does.  Mant is 53 for float64;
\* the model keeps the rounding rule and shortens the mantissa.
Mant == 5

RECURSIVE Pow2(_)
Pow2(k) == IF k = 0 THEN 1 ELSE 2 * Pow2(k - 1)
RECURSIVE BitLen(_)
BitLen(a) == IF a = 0 THEN 0 ELSE 1 + BitLen(a \div 2)

FZero == <<0, 0>>
\* the float nearest to n * 2^e
FRound(n, e) ==
    IF n = 0 THEN FZero
    ELSE Let(<<Abs(n), BitLen(Abs(n)), Sign(n)>>, LAMBDA t :
        IF t[2] <= Mant
        THEN <<t[3] * t[1] * Pow2(Mant - t[2]), e - (Mant - t[2])>>
        ELSE LET k == t[2] - Mant
                 q == t[1] \div Pow2(k)
                 r == t[1] % Pow2(k)
                 up == 2 * r > Pow2(k) \/ (2 * r = Pow2(k) /\ q % 2 = 1)
                 q1 == IF up THEN q + 1 ELSE q
             IN  IF q1 = Pow2(Mant) THEN <<t[3] * Pow2(Mant - 1), e + k + 1>>
                 ELSE <<t[3] * q1, e + k>>)
FromInt(n) == FRound(n, 0)
FOne == FromInt(1)
FNeg(a) == <<-a[1], a[2]>>
FMul(a, b) == Let(<<a, b>>, LAMBDA t : FRound(t[1][1] * t[2][1], t[1][2] + t[2][2]))
\* a + b: the exact sum rounded; a term below a quarter of the last place of the other
\* does not change it
FAdd(a, b) == Let(<<a, b>>, LAMBDA t :
    IF t[1][1] = 0 THEN t[2]
    ELSE IF t[2][1] = 0 THEN t[1]
    ELSE LET hi == IF t[1][2] >= t[2][2] THEN t[1] ELSE t[2]
             lo == IF t[1][2] >= t[2][2] THEN t[2] ELSE t[1]
             d == hi[2] - lo[2]
         IN  IF d >= Mant + 3 THEN hi
             ELSE FRound(hi[1] * Pow2(d) + lo[1], lo[2]))
FSub(a, b) == FAdd(a, FNeg(b))
\* a / b for b # 0: the quotient to Mant + 2 bits and a sticky bit, rounded
FDiv(a, b) == Let(<<a, b>>, LAMBDA t :
    IF t[1][1] = 0 THEN FZero
    ELSE LET n == Abs(t[1][1]) * Pow2(Mant + 2)
             q == n \div Abs(t[2][1])
             sticky == IF n % Abs(t[2][1]) = 0 THEN 0 ELSE 1
         IN  FRound(Sign(t[1][1]) * Sign(t[2][1]) * (2 * q + sticky),
                    t[1][2] - t[2][2] - Mant - 3))
\* |a| < |b|
FAbsLess(a, b) ==
    IF b[1] = 0 THEN FALSE
    ELSE IF a[1] = 0 THEN TRUE
    ELSE a[2] < b[2] \/ (a[2] = b[2] /\ Abs(a[1]) < Abs(b[1]))

RECURSIVE FSumTo(_, _)
FSumTo(s, n) == IF n = 0 THEN FZero ELSE FAdd(FSumTo(s, n - 1), s[n])
FSumSeq(s) == Let(s, LAMBDA v : FSumTo(v, Len(v)))
\* the operator @ on float arrays
FDot(a, b) == Let(<<a, b>>, LAMBDA t :
    FSumSeq(Arr([i \in 1..Len(t[1]) |-> FMul(t[1][i], t[2][i])])))
FMatMul(M1, M2) == Let(<<M1, M2>>, LAMBDA t :
    Arr([i \in 1..NRows(t[1]) |-> Arr([j \in 1..NCols(t[2]) |->
        FSumSeq(Arr([k \in 1..NCols(t[1]) |-> FMul(t[1][i][k], t[2][k][j])]))])]))
FMatVec(M, v) == Let(<<M, v>>, LAMBDA t :
    Arr([i \in 1..NRows(t[1]) |-> FDot(t[1][i], t[2])]))
\* an array of integer-valued numbers as a float array
FVec(v) == Arr([i \in 1..Len(v) |-> FromInt(v[i][1])])
FMat(M) == Arr([i \in 1..NRows(M) |-> FVec(M[i])])

\* the rows of M, each followed by a row of the identity
Augmented(M) == Let(M, LAMBDA m :
    Arr([i \in 1..NRows(m) |-> Arr([j \in 1..(2 * NRows(m)) |->
        IF j <= NRows(m) THEN m[i][j] ELSE IF j - NRows(m) = i THEN FOne ELSE FZero])]))

\* LAPACK getrf on the left half, the row operations applied to the right half: in column
\* k the first entry of largest magnitude is the pivot; a pivot equal to zero is reported
\* (info > 0) and nothing is solved.  scal: the column is scaled by the rounded reciprocal
\* of the pivot (reference getf2); otherwise it is divided by the pivot
RECURSIVE Eliminate(_, _, _)
Eliminate(Aug, k, scal) == Let(Aug, LAMBDA a :
    IF k > NRows(a) THEN [ok |-> TRUE, val |-> a]
    ELSE Let(CHOOSE i \in k..NRows(a) : \A j \in k..NRows(a) :
                /\ ~FAbsLess(a[i][k], a[j][k])
                /\ j < i => FAbsLess(a[j][k], a[i][k]), LAMBDA piv :
        IF a[piv][k][1] = 0 THEN [ok |-> FALSE, val |-> <<>>]
        ELSE Let(Arr([i \in 1..NRows(a) |->
                    IF i = k THEN a[piv] ELSE IF i = piv THEN a[k] ELSE a[i]]), LAMBDA sw :
             Let(FDiv(FOne, sw[k][k]), LAMBDA rp :
                Eliminate(
                    Arr([i \in 1..NRows(sw) |->
                        IF i <= k THEN sw[i]
                        ELSE Let(IF scal THEN FMul(sw[i][k], rp) ELSE FDiv(sw[i][k], sw[k][k]),
                                 LAMBDA mult :
                                    Arr([j \in 1..Len(sw[i]) |->
                                        IF j < k THEN sw[i][j]
                                        ELSE IF j = k THEN FZero
                                        ELSE FSub(sw[i][j], FMul(mult, sw[k][j]))]))]),
                    k + 1, scal)))))

\* the solution x of U x = b for the upper triangle U, from the last unknown to the first
RECURSIVE BackSubstitute(_, _, _)
BackSubstitute(U, b, j) ==
    IF j = 0 THEN b
    ELSE Let(FDiv(b[j], U[j][j]), LAMBDA xj :
        BackSubstitute(U,
            Arr([i \in 1..Len(b) |->
                IF i < j THEN FSub(b[i], FMul(xj, U[i][j])) ELSE IF i = j THEN xj ELSE b[i]]),
            j - 1))

\* np.linalg.inv(M) in floating point: the solution of M X = identity, or LinAlgError
inv_float(M, scal) == Let(Eliminate(Augmented(M), 1, scal), LAMBDA f :
    IF ~f.ok THEN [ok |-> FALSE, val |-> <<>>]
    ELSE Let(Arr([c \in 1..NRows(f.val) |->
                BackSubstitute(f.val,
                    Arr([i \in 1..NRows(f.val) |-> f.val[i][NRows(f.val) + c]]),
                    NRows(f.val))]), LAMBDA cols :
            [ok |-> TRUE,
             val |-> Arr([i \in 1..Len(cols) |-> Arr([c \in 1..Len(cols) |-> cols[c][i]])])]))

\* ------------------------------------------------------- kernel state
VARIABLES
    W,          \* global W: the weight matrix bound by the cell "W = np.linalg.inv(cov_y)", <<>> while unbound
    call,       \* the last function call: its arguments and what it produced
    measured,   \* global measured: the events, known by the minimum of their likelihood, <<>> while unbound
    minimizer,  \* the invocation of scipy.optimize.minimize: its state, iterate and iteration count
    result,     \* global result: the OptimizeResult minimize returned, <<>> while unbound
    cov,        \* global cov: the inverse Hessian at result.x, <<>> while unbound
    higgs_mass, \* globals higgs_mass and higgs_mass_unc, <<>> while unbound
    kernel      \* a run of the notebook from its first cell: the next cell, what each global
                \* name is bound to, the data files, the last fit call and the exception raised

vars == <<W, call, measured, minimizer, result, cov, higgs_mass, kernel>>
\* the globals of the likelihood fit
fitvars == <<measured, minimizer, result, cov, higgs_mass>>
\* the globals of the linear fits
linvars == <<W, call>>

\* a name the cells did not bind
Unbound == <<>>
\* the global names the run follows
EnvNames == {"N", "x", "y", "y_unc", "A", "cov_y", "W", "parameters", "cov", "t"}
NoCall == [fn |-> "none", line |-> 0, reads |-> <<>>]
\* no run: nothing is bound
NotStarted == [pc |-> 0, env |-> [n \in EnvNames |-> Unbound],
               files |-> [slit |-> 0, muon |-> <<>>], last |-> NoCall, exc |-> ""]

\* ------------------------------------------------------- basis functions
BasisFuncs == {"ones_like", "sin", "cos"}
SinTab == <<0, 1, 0, -1>>
CosTab == <<1, 0, -1, 0>>
\* f applied to the sample point x = k * pi / 2
Apply(f, k) ==
    CASE f = "ones_like" -> One
      [] f = "sin" -> R(SinTab[(k % 4) + 1])
      [] f = "cos" -> R(CosTab[(k % 4) + 1])

\* np.column_stack of 1-D arrays of one length: the arrays become the columns
column_stack(cols) == Arr([i \in 1..Len(cols[1]) |-> Arr([j \in 1..Len(cols) |-> cols[j][i]])])

\* the evaluations stacked as rows (np.array instead of np.column_stack)
design_matrix_rows(funcs, x) ==
    Arr([j \in 1..Len(funcs) |-> Arr([i \in 1..Len(x) |-> Apply(funcs[j], x[i])])])

design_matrix(funcs, x) ==
    column_stack(Arr([j \in 1..Len(funcs) |-> Arr([i \in 1..Len(x) |-> Apply(funcs[j], x[i])])]))

\* funcs and x as design_matrix leaves them: the comprehension only reads them and
\* np.column_stack builds a new array
design_matrix_args(funcs, x) == <<funcs, x>>

\* ------------------------------------------------------- linear least squares
NoResult == [exc |-> "", parameters |-> <<>>, cov |-> <<>>, chi |-> <<>>, W |-> <<>>, A |-> <<>>]
Raise(e) == [NoResult EXCEPT !.exc = e]

\* the weights left out of the estimate: parameters = cov @ A.T @ y
solve_unweighted_estimate(A, Wm, y) ==
    Let(Inv(MatMul(MatMul(Transpose(A), Wm), A)), LAMBDA inv :
        IF ~inv.ok THEN Raise("LinAlgError")
        ELSE [NoResult EXCEPT
                !.cov = inv.val,
                !.parameters = MatVec(MatMul(inv.val, Transpose(A)), y)])

solve_linear_least_squares(A, Wm, y) ==
    Let(Inv(MatMul(MatMul(Transpose(A), Wm), A)), LAMBDA inv :
        IF ~inv.ok THEN Raise("LinAlgError")
        ELSE [NoResult EXCEPT
                !.cov = inv.val,
                !.parameters = MatVec(MatMul(MatMul(inv.val, Transpose(A)), Wm), y)])

\* solve_linear_least_squares in floating point, for integer-valued A, Wm and y
solve_linear_least_squares_float(A, Wm, y, scal) ==
    Let(<<FMat(A), FMat(Wm), FVec(y)>>, LAMBDA t :
    Let(inv_float(FMatMul(FMatMul(Transpose(t[1]), t[2]), t[1]), scal), LAMBDA inv :
        IF ~inv.ok THEN Raise("LinAlgError")
        ELSE [NoResult EXCEPT
                !.cov = inv.val,
                !.parameters = FMatVec(FMatMul(FMatMul(inv.val, Transpose(t[1])), t[2]), t[3])]))

\* the number of observations taken for the number of degrees of freedom
chisquare_over_n(y, A, parameters) ==
    Let(VecSub(y, MatVec(A, parameters)), LAMBDA residuals :
        IF W = <<>> THEN Raise("NameError")
        ELSE IF NRows(W) # Len(residuals) THEN Raise("ValueError")
        ELSE [NoResult EXCEPT !.chi = RDiv(Dot(VecMat(residuals, W), residuals), R(Len(y)))])

\* reads the global W, not a parameter
chisquare_over_ndf(y, A, parameters) ==
    Let(VecSub(y, MatVec(A, parameters)), LAMBDA residuals :
        IF W = <<>> THEN Raise("NameError")
        ELSE IF NRows(W) # Len(residuals) THEN Raise("ValueError")
        ELSE LET sum_residuals == Dot(VecMat(residuals, W), residuals)
                 ndf == Len(y) - Len(parameters)
             IN  [NoResult EXCEPT !.chi = RDiv(sum_residuals, R(ndf))])

\* the covariance matrix ignored: always the identity
local_W_identity(y, cov_y) == [ok |-> TRUE, val |-> Eye(Len(y))]

\* the local weight matrix of linear_least_squares
local_W(y, cov_y) == IF cov_y # <<>> THEN Inv(cov_y) ELSE [ok |-> TRUE, val |-> Eye(Len(y))]

linear_least_squares(x, y, funcs, cov_y) ==
    Let(design_matrix(funcs, x), LAMBDA A :
    Let(local_W(y, cov_y), LAMBDA Wl :
        IF ~Wl.ok THEN Raise("LinAlgError")
        ELSE Let(solve_linear_least_squares(A, Wl.val, y), LAMBDA sol :
            IF sol.exc # "" THEN [sol EXCEPT !.W = Wl.val, !.A = A]
            ELSE Let(chisquare_over_ndf(y, A, sol.parameters), LAMBDA chisquare_ndf :
                IF chisquare_ndf.exc # ""
                THEN [chisquare_ndf EXCEPT !.W = Wl.val, !.A = A]
                ELSE [sol EXCEPT !.chi = chisquare_ndf.chi, !.W = Wl.val, !.A = A]))))

\* ------------------------------------------------------- inputs
\* sample points: strictly increasing sequences of n points k * pi / 2, k in 0..3
XSeqs(n) == {s \in [1..n -> 0..3] : \A i \in 1..(n - 1) : s[i] < s[i + 1]}
FuncSeqs(p) == [1..p -> BasisFuncs]
\* the bases of the fits: one order of each choice of functions, repeats included
\* (another order permutes the columns of A and the parameters alike)
Rank(f) == CASE f = "ones_like" -> 1 [] f = "sin" -> 2 [] f = "cos" -> 3
Bases(p) == {s \in FuncSeqs(p) : \A i \in 1..(p - 1) : Rank(s[i]) <= Rank(s[i + 1])}
YVals == {0, 1}
YSeqs(n) == {Arr([i \in 1..n |-> R(s[i])]) : s \in [1..n -> YVals]}
\* diagonal weight or covariance matrices: all entries 2, or the first of them replaced
\* by another positive entry, by zero or by a negative entry
OddVals == {-1, 0, 1}
Diags(n) == {Diag(Arr([i \in 1..n |-> IF i = 1 THEN R(v) ELSE R(2)])) : v \in OddVals \cup {2}}
ThetaSeqs(p) == {Arr([i \in 1..p |-> R(s[i])]) : s \in [1..p -> {0, 1}]}

\* design matrices of the floating-point solves: n x p, entries 0..FlMaxEntry
IntMats(n, p) == {Arr([i \in 1..n |-> Arr([j \in 1..p |-> R(f[i][j])])]) :
                    f \in [1..n -> [1..p -> 0..FlMaxEntry]]}

\* global y_unc = rng.uniform(0.1, 0.4, N) under the fixed seed: one realisation,
\* here 1/5, 1/4, 1/5, ...
y_unc == Arr([i \in 1..MaxN |-> Rat(1, 4 + (i % 2))])

\* global cov_y = np.diag(y_unc**2)
global_cov_y == Diag(Arr([i \in 1..Len(y_unc) |-> RMul(y_unc[i], y_unc[i])]))

\* ------------------------------------------------------- actions
Idle == [fn |-> "none", funcs |-> <<>>, x |-> <<>>, y |-> <<>>, A |-> <<>>, Wm |-> <<>>,
         cov_y |-> <<>>, parameters |-> <<>>, scal |-> FALSE, ret |-> NoResult,
         args_after |-> <<>>]

\* a fresh kernel: nothing is bound, nothing was called
NotRunning == [state |-> "none", x |-> 0, nit |-> 0]

Init ==
    /\ W = <<>>
    /\ call = Idle
    /\ measured = <<>>
    /\ minimizer = NotRunning
    /\ result = <<>>
    /\ cov = <<>>
    /\ higgs_mass = <<>>
    /\ kernel = NotStarted

\* cell: cov_y = np.diag(y_unc**2); W = np.linalg.inv(cov_y)
CellW ==
    /\ W' = Inv(global_cov_y).val
    /\ UNCHANGED <<call, fitvars, kernel>>

CallDesignMatrix ==
    /\ call.fn = "none"
    /\ \E n \in 1..MaxN, p \in 1..MaxP :
         \E funcs \in FuncSeqs(p), x \in XSeqs(n) :
            call' = [Idle EXCEPT !.fn = "design_matrix", !.funcs = funcs, !.x = x,
                                 !.ret = [NoResult EXCEPT !.A = design_matrix(funcs, x)],
                                 !.args_after = design_matrix_args(funcs, x)]
    /\ UNCHANGED <<W, fitvars, kernel>>

CallSolve ==
    /\ call.fn = "none"
    /\ \E n \in 1..MaxN, p \in 1..MaxP :
         \E funcs \in Bases(p), x \in XSeqs(n), Wm \in Diags(n), y \in YSeqs(n) :
            \E A \in {design_matrix(funcs, x)} :
                call' = [Idle EXCEPT !.fn = "solve_linear_least_squares",
                                     !.A = A, !.Wm = Wm, !.y = y,
                                     !.ret = solve_linear_least_squares(A, Wm, y)]
    /\ UNCHANGED <<W, fitvars, kernel>>

CallChisquare ==
    /\ call.fn = "none"
    /\ \E n \in 1..MaxN, p \in 1..MaxP :
         \E funcs \in Bases(p), x \in XSeqs(n), y \in YSeqs(n), parameters \in ThetaSeqs(p) :
            \E A \in {design_matrix(funcs, x)} :
                call' = [Idle EXCEPT !.fn = "chisquare_over_ndf",
                                     !.A = A, !.y = y, !.parameters = parameters,
                                     !.ret = chisquare_over_ndf(y, A, parameters)]
    /\ UNCHANGED <<W, fitvars, kernel>>

CallLinearLeastSquares ==
    /\ call.fn = "none"
    /\ \E n \in 1..MaxN, p \in 1..MaxP :
         \E funcs \in Bases(p), x \in XSeqs(n), y \in YSeqs(n),
            cov_y \in Diags(n) \cup {c \in {global_cov_y} : n = MaxN} \cup {<<>>} :
            call' = [Idle EXCEPT !.fn = "linear_least_squares",
                                 !.funcs = funcs, !.x = x, !.y = y, !.cov_y = cov_y,
                                 !.ret = linear_least_squares(x, y, funcs, cov_y)]
    /\ UNCHANGED <<W, fitvars, kernel>>

\* what the function of the last call returns for the arguments of the last call
Recompute ==
    CASE call.fn = "design_matrix" ->
            [NoResult EXCEPT !.A = design_matrix(call.funcs, call.x)]
      [] call.fn = "solve_linear_least_squares" ->
            solve_linear_least_squares(call.A, call.Wm, call.y)
      [] call.fn = "chisquare_over_ndf" ->
            chisquare_over_ndf(call.y, call.A, call.parameters)
      [] call.fn = "linear_least_squares" ->
            linear_least_squares(call.x, call.y, call.funcs, call.cov_y)

\* the same function is called once more with identical arguments
CallAgain ==
    /\ call.fn # "none"
    /\ call' = [call EXCEPT !.ret = Recompute]
    /\ UNCHANGED <<W, fitvars, kernel>>

\* the results are dropped; the kernel takes the next call
NextCall ==
    /\ call.fn # "none"
    /\ call' = Idle
    /\ UNCHANGED <<W, fitvars, kernel>>

Next ==
    \/ CellW
    \/ CallDesignMatrix
    \/ CallSolve
    \/ CallChisquare
    \/ CallLinearLeastSquares
    \/ CallAgain
    \/ NextCall

Spec == Init /\ [][Next]_vars

\* solve_linear_least_squares(A, np.eye(N), y) as the machine computes it; scal is the
\* build's way to form the multipliers of the LU factorisation
CallSolveFloat ==
    /\ call.fn = "none"
    /\ \E n \in 1..FlMaxN, p \in 1..FlMaxP :
         \E A \in IntMats(n, p), y \in YSeqs(n), scal \in BOOLEAN :
            call' = [Idle EXCEPT !.fn = "solve_linear_least_squares",
                                 !.A = A, !.Wm = Eye(n), !.y = y, !.scal = scal,
                                 !.ret = solve_linear_least_squares_float(A, Eye(n), y, scal)]
    /\ UNCHANGED <<W, fitvars, kernel>>

NextFloat ==
    \/ CallSolveFloat
    \/ NextCall

SpecFloat == Init /\ [][NextFloat]_vars

\* ------------------------------------------------------- the four-point example
\* funcs = [np.ones_like, np.sin, np.cos]
global_funcs == <<"ones_like", "sin", "cos">>
\* x = 0, pi/2, pi, 3pi/2
example_x == <<0, 1, 2, 3>>
example_A == design_matrix(global_funcs, example_x)
\* observations at the four points
ExampleYVals == {-1, 0, 1, 2}
ExampleYs == {Arr([i \in 1..Len(example_x) |-> R(s[i])]) : s \in [1..Len(example_x) -> ExampleYVals]}

\* y_unc of a data set of n observations (the realisation of y_unc, continued)
y_unc_of(n) == Arr([i \in 1..n |-> Rat(1, 4 + (i % 2))])

\* cell: cov_y = np.diag(y_unc**2); W = np.linalg.inv(cov_y), run in a kernel whose
\* y_unc belongs to the four observations
example_W == Inv(Diag(Arr([i \in 1..Len(example_x) |->
                 RMul(y_unc_of(Len(example_x))[i], y_unc_of(Len(example_x))[i])]))).val

CellWExample ==
    /\ W' = example_W
    /\ UNCHANGED <<call, fitvars, kernel>>

\* solve_linear_least_squares(A, np.eye(4), y): the solve of the unweighted fit (line 309)
CallExampleSolve ==
    /\ call.fn = "none"
    /\ \E y \in ExampleYs :
         call' = [Idle EXCEPT !.fn = "solve_linear_least_squares",
                              !.A = example_A, !.Wm = Eye(Len(y)), !.y = y,
                              !.ret = solve_linear_least_squares(example_A, Eye(Len(y)), y)]
    /\ UNCHANGED <<W, fitvars, kernel>>

\* linear_least_squares(x, y, funcs)
CallExampleFit ==
    /\ call.fn = "none"
    /\ \E y \in ExampleYs :
         call' = [Idle EXCEPT !.fn = "linear_least_squares",
                              !.funcs = global_funcs, !.x = example_x, !.y = y,
                              !.ret = linear_least_squares(example_x, y, global_funcs, <<>>)]
    /\ UNCHANGED <<W, fitvars, kernel>>

NextExample ==
    \/ CellW
    \/ CellWExample
    \/ CallExampleSolve
    \/ CallExampleFit
    \/ NextCall

SpecExample == Init /\ [][NextExample]_vars

\* ------------------------------------------------------- curve_fit
\* The model function is known by its design matrix A (func is linear in p1, p2, p3;
\* theory by its Jacobian at the solution), of full column rank with more rows than
\* columns or as many.
ScaleAll(M, c) == Arr([i \in 1..NRows(M) |-> Arr([j \in 1..NCols(M) |-> RMul(M[i][j], c)])])
Inf == <<1, 0>>

\* scipy's curve_fit(f, xdata, ydata, sigma, absolute_sigma): the residuals are divided
\* by sigma when it is given; pcov is the inverse of J^T J for the weighted Jacobian J,
\* multiplied, unless absolute_sigma is set, by the reduced chi-square of the solution
\* (filled with inf when there are no degrees of freedom)
curve_fit(A, y, sigma, absolute_sigma) ==
    Let(IF sigma = <<>> THEN Eye(Len(y))
        ELSE Diag(Arr([i \in 1..Len(y) |-> RDiv(One, RMul(sigma[i], sigma[i]))])), LAMBDA Wm :
    Let(solve_linear_least_squares(A, Wm, y), LAMBDA sol :
        IF absolute_sigma THEN [popt |-> sol.parameters, pcov |-> sol.cov]
        ELSE IF Len(y) > NCols(A)
        THEN Let(VecSub(y, MatVec(A, sol.parameters)), LAMBDA r :
                [popt |-> sol.parameters,
                 pcov |-> ScaleAll(sol.cov, RDiv(Dot(VecMat(r, Wm), r), R(Len(y) - NCols(A))))])
        ELSE [popt |-> sol.parameters,
              pcov |-> Arr([i \in 1..NCols(A) |-> Arr([j \in 1..NCols(A) |-> Inf])])]))

\* the curve_fit calls of the notebook, by the line of the call: the model function,
\* whether sigma is passed, and absolute_sigma (False when it is not passed)
CurveFitCalls ==
    { [line |-> 411, f |-> "func", sigma |-> TRUE, absolute_sigma |-> TRUE],
      [line |-> 477, f |-> "func", sigma |-> FALSE, absolute_sigma |-> FALSE],
      [line |-> 512, f |-> "theory", sigma |-> FALSE, absolute_sigma |-> FALSE] }

\* ydata of the curve_fit calls
CurveYVals == {0, 1, 2}
CurveYs(n) == {Arr([i \in 1..n |-> R(s[i])]) : s \in [1..n -> CurveYVals]}

CallCurveFit ==
    /\ call.fn = "none"
    /\ \E c \in CurveFitCalls, n \in 1..MaxN, p \in 1..MaxP :
         \E funcs \in Bases(p), x \in XSeqs(n), y \in CurveYs(n) :
            \E A \in {design_matrix(funcs, x)} :
                /\ n >= p
                /\ Det(MatMul(Transpose(A), A))[1] # 0
                /\ call' = [fn |-> "curve_fit", site |-> c, A |-> A, y |-> y,
                            sigma |-> IF c.sigma THEN y_unc_of(n) ELSE <<>>,
                            ret |-> curve_fit(A, y, IF c.sigma THEN y_unc_of(n) ELSE <<>>,
                                              c.absolute_sigma)]
    /\ UNCHANGED <<W, fitvars, kernel>>

NextCurveFit ==
    \/ CallCurveFit
    \/ NextCall

SpecCurveFit == Init /\ [][NextCurveFit]_vars

\* ------------------------------------------------------- likelihood fit
\* The parameter vector is known by its first component, the mean, on a grid whose
\* origin is the initial guess x0; measured is known by the grid point at which its
\* negative log-likelihood is minimal.
Dist(a, b) == Abs(a - b)
Running == minimizer.state \in {"Initialized", "Iterating"}

\* the kernel after the cell that draws the toy events
InitFit ==
    /\ W = <<>>
    /\ call = Idle
    /\ measured \in {[opt |-> k] : k \in (-MaxDist)..MaxDist}
    /\ minimizer = NotRunning
    /\ result = <<>>
    /\ cov = <<>>
    /\ higgs_mass = <<>>
    /\ kernel = NotStarted

\* cell: result = minimize(neg_log_likelihood, args=(measured, ), x0=..., bounds=...)
\* the invocation starts at the initial guess
MinimizeStart ==
    /\ ~Running
    /\ minimizer' = [state |-> "Initialized", x |-> 0, nit |-> 0]
    /\ UNCHANGED <<linvars, kernel, measured, result, cov, higgs_mass>>

\* the solver enters its loop: the objective and its gradient are evaluated at the
\* starting point; every test for convergence or failure is made inside the loop
MinimizeEvaluate ==
    /\ minimizer.state = "Initialized"
    /\ minimizer' = [minimizer EXCEPT !.state = "Iterating"]
    /\ UNCHANGED <<linvars, kernel, measured, result, cov, higgs_mass>>

\* one iteration: a line search moves the iterate towards the minimum
MinimizeIterate ==
    /\ minimizer.state = "Iterating"
    /\ minimizer.x # measured.opt
    /\ minimizer.nit < MaxIter
    /\ \E step \in 1..Dist(minimizer.x, measured.opt) :
         minimizer' = [state |-> "Iterating",
                       x |-> IF measured.opt > minimizer.x THEN minimizer.x + step
                             ELSE minimizer.x - step,
                       nit |-> minimizer.nit + 1]
    /\ UNCHANGED <<linvars, kernel, measured, result, cov, higgs_mass>>

\* the projected gradient vanishes: minimize returns with success = True
MinimizeConverge ==
    /\ minimizer.state = "Iterating"
    /\ minimizer.x = measured.opt
    /\ minimizer' = [minimizer EXCEPT !.state = "Converged"]
    /\ result' = [x |-> minimizer.x, success |-> TRUE, nit |-> minimizer.nit,
                  message |-> "CONVERGENCE"]
    /\ UNCHANGED <<linvars, kernel, measured, cov, higgs_mass>>

\* a failed minimization started again from its last iterate
MinimizeRetry ==
    /\ minimizer.state = "Iterating"
    /\ minimizer.x # measured.opt
    /\ minimizer' = [state |-> "Initialized", x |-> minimizer.x, nit |-> 0]
    /\ UNCHANGED <<linvars, kernel, measured, result, cov, higgs_mass>>

\* the iteration budget is spent or the line search breaks down away from the minimum:
\* minimize raises nothing and returns the last iterate with success = False
MinimizeFail ==
    /\ minimizer.state = "Iterating"
    /\ minimizer.x # measured.opt
    /\ \E message \in {"ABNORMAL_TERMINATION_IN_LNSRCH"} \cup
                      {msg \in {"ITERATIONS REACHED LIMIT"} : minimizer.nit = MaxIter} :
         result' = [x |-> minimizer.x, success |-> FALSE, nit |-> minimizer.nit,
                    message |-> message]
    /\ minimizer' = [minimizer EXCEPT !.state = "Failed"]
    /\ UNCHANGED <<linvars, kernel, measured, cov, higgs_mass>>

\* the Hessian of the negative log-likelihood at a point: positive definite at the
\* minimum, of either sign away from it
Curvatures(x) == IF x = measured.opt THEN {1} ELSE {1, -1}

\* cell: hesse = Hessian(neg_log_likelihood); cov = np.linalg.inv(hesse(result.x, measured))
\* result.success is not read
CellHessian ==
    /\ ~Running
    /\ result # <<>>
    /\ \E c \in Curvatures(result.x) : cov' = [x |-> result.x, var |-> c]
    /\ UNCHANGED <<linvars, kernel, measured, minimizer, result, higgs_mass>>

\* cell: higgs_mass = result.x[0]; higgs_mass_unc = np.sqrt(cov[0, 0])
\* result.success is not read; the square root of a negative variance is nan
CellHiggsMass ==
    /\ ~Running
    /\ result # <<>>
    /\ cov # <<>>
    /\ higgs_mass' = [value |-> result.x, unc |-> IF cov.var > 0 THEN "finite" ELSE "nan"]
    /\ UNCHANGED <<linvars, kernel, measured, minimizer, result, cov>>

NextFit ==
    \/ MinimizeStart
    \/ MinimizeEvaluate
    \/ MinimizeIterate
    \/ MinimizeConverge
    \/ MinimizeFail
    \/ CellHessian
    \/ CellHiggsMass

SpecFit == InitFit /\ [][NextFit]_vars

\* ------------------------------------------------------- densities
\* probabilities and the parameter p: rationals in [0, 1]
PVals == {<<0, 1>>, <<1, 4>>, <<1, 2>>, <<3, 4>>, <<1, 1>>}
\* the decay factors exp(-d / tau) of a fixed distance d, for tau > 0: rationals in (0, 1)
Decays == {<<1, 2>>, <<1, 3>>, <<2, 3>>, <<1, 4>>, <<3, 4>>, <<1, 5>>, <<4, 5>>}

RECURSIVE RPow(_, _)
RPow(q, k) == IF k = 0 THEN One ELSE RMul(RPow(q, k - 1), q)

\* expon.cdf(x, scale=tau) = 1 - exp(-x / tau) at x = k units, with r = exp(-unit / tau)
expon_cdf(k, r) == RSub(One, RPow(r, k))

\* E_MIN = 75; E_MAX = 175
E_MIN == 75
E_MAX == 175
\* energies are multiples of EStep: exp(-E / tau) = s^(E / EStep) for s = exp(-EStep / tau)
EStep == GCD(E_MIN, E_MAX)
\* np.exp(-E / tau)
exp_neg(E, s) == RPow(s, E \div EStep)

\* the normalisation left out
expon_norm_none(s) == One

\* expon_norm = np.exp(-E_MIN / tau) - np.exp(-E_MAX / tau)
expon_norm(s) == RSub(exp_neg(E_MIN, s), exp_neg(E_MAX, s))

\* the integrals over [E_MIN, E_MAX] of pdf(x, mean, std, tau, p) and of its two
\* densities, term by term.  normal is norm.cdf(., mean, std) at E_MIN and at E_MAX; the
\* integral of expon.pdf(., scale=tau) is the difference of expon.cdf
pdf_integral(normal, s, p) ==
    LET signal == RSub(normal.hi, normal.lo)
        mass_peak == RMul(p, signal)
        expon_mass == RSub(expon_cdf(E_MAX \div EStep, s), expon_cdf(E_MIN \div EStep, s))
        background == RMul(RDiv(RSub(One, p), expon_norm(s)), expon_mass)
    IN  [integral |-> RAdd(mass_peak, background),
         signal |-> signal,
         background |-> RMul(RDiv(One, expon_norm(s)), expon_mass)]

\* norm.cdf(., mean, std) at E_MIN and at E_MAX, for std > 0: 0 < lo < hi < 1
CdfVals == {<<1, 10>>, <<1, 4>>, <<1, 2>>, <<3, 4>>, <<9, 10>>}
Normals == {n \in [lo : CdfVals, hi : CdfVals] : RLess(n.lo, n.hi)}

CallPdf ==
    /\ call.fn = "none"
    /\ \E normal \in Normals, s \in Decays, p \in PVals :
         call' = [fn |-> "pdf", normal |-> normal, tau |-> s, p |-> p,
                  ret |-> pdf_integral(normal, s, p)]
    /\ UNCHANGED <<W, fitvars, kernel>>

NextPdf ==
    \/ CallPdf
    \/ NextCall

SpecPdf == Init /\ [][NextPdf]_vars

\* ------------------------------------------------------- binned fit
\* t = t[5:]; N = N[5:]
DropBins == 5
\* the bin edges t = np.arange(len(N) + 1) / 21.48 after t = t[5:], for a count file of
\* L lines, in units of 1 / 21.48 microseconds
\* the edges left whole: t = t[5:] forgotten
EdgesUnsliced(L) == Arr([i \in 1..(L + 1) |-> i - 1])

Edges(L) == Arr([i \in 1..(L + 1 - DropBins) |-> i + DropBins - 1])

\* the count files: one count per line
CountVals == {0, 1}
CountFiles == UNION {[1..L -> CountVals] : L \in 0..MaxBins}

\* the two cells that build the histogram, for the counts of the file:
\*   N = np.genfromtxt(file); t = np.arange(len(N) + 1) / 21.48; t = t[5:]; N = N[5:]
\*   T_MIN, T_MAX = t[0], t[-1]
\* np.genfromtxt returns an empty array for an empty file and a 0-d array, which has
\* no len(), for a file of one line
muon_data(counts) ==
    IF Len(counts) = 1
    THEN [exc |-> "TypeError", t |-> Unbound, N |-> Unbound, T_MIN |-> Unbound, T_MAX |-> Unbound]
    ELSE LET t == Edges(Len(counts))
             N == SubSeq(counts, DropBins + 1, Len(counts))
         IN  IF Len(t) = 0
             THEN [exc |-> "IndexError", t |-> t, N |-> N, T_MIN |-> Unbound, T_MAX |-> Unbound]
             ELSE [exc |-> "", t |-> t, N |-> N, T_MIN |-> t[1], T_MAX |-> t[Len(t)]]

CellMuonData ==
    /\ call.fn = "none"
    /\ \E counts \in CountFiles :
         call' = [fn |-> "muon_data", file |-> Arr(counts), ret |-> muon_data(Arr(counts))]
    /\ UNCHANGED <<W, fitvars, kernel>>

NextHist ==
    \/ CellMuonData
    \/ NextCall

SpecHist == Init /\ [][NextHist]_vars

\* scipy's uniform.cdf(x, loc, scale): the uniform distribution on [loc, loc + scale]
uniform_cdf(x, loc, scale) ==
    Let(RDiv(R(x - loc), R(scale)), LAMBDA u :
        IF RLess(u, Zero) THEN Zero ELSE IF RLess(One, u) THEN One ELSE u)

\* cdf(x, tau, p) for one edge x, with the globals T_MIN and T_MAX; r = exp(-1 / (21.48 tau))
cdf(x, r, p, T_MIN, T_MAX) ==
    LET cdf_min == expon_cdf(T_MIN, r)
        cdf_max == expon_cdf(T_MAX, r)
        norm == RDiv(One, RSub(cdf_max, cdf_min))
        signal == RMul(RMul(p, expon_cdf(x, r)), norm)
        background == RMul(RSub(One, p), uniform_cdf(x, T_MIN, T_MAX))
    IN  RAdd(signal, background)

\* BinnedNLL evaluates cdf(t, tau, p) on the array of the edges; T_MIN, T_MAX = t[0], t[-1]
CallCdf ==
    /\ call.fn = "none"
    /\ \E L \in (DropBins + 1)..MaxBins, r \in Decays, p \in PVals :
         \E t \in {Edges(L)} :
            call' = [fn |-> "cdf", t |-> t, tau |-> r, p |-> p,
                     ret |-> Arr([i \in 1..Len(t) |-> cdf(t[i], r, p, t[1], t[Len(t)])])]
    /\ UNCHANGED <<W, fitvars, kernel>>

NextCdf ==
    \/ CallCdf
    \/ NextCall

SpecCdf == Init /\ [][NextCdf]_vars

\* ------------------------------------------------------- the notebook, top to bottom
\* An array is known by the data it describes and by the length of its first axis, the
\* integer N by the data it counts and by its value.
Desc(of, len) == [of |-> of, len |-> len]
\* N = 100
N_toy == 100
\* x = np.linspace(-0.03, 0.03, 501)
GridPoints == 501
Toy == Desc("toy", N_toy)

\* the code cells that bind or read the names of EnvNames, in the order of the file, with
\* the slit-diffraction cell run before the two timing cells
CellsSlitFirst ==
    << "toy_data", "design_matrix", "weights", "solve", "chisquare", "fit",
       "curve_fit_sigma", "slit", "timeit_fit", "timeit_curve_fit",
       "hessian", "muon_data", "muon_fit" >>

\* the code cells that bind or read the names of EnvNames, in the order of the file
Cells ==
    << "toy_data", "design_matrix", "weights", "solve", "chisquare", "fit",
       "curve_fit_sigma", "timeit_fit", "timeit_curve_fit", "slit",
       "hessian", "muon_data", "muon_fit" >>

Step(k) == [k EXCEPT !.pc = @ + 1]
Fail(k, e) == [k EXCEPT !.exc = e]

\* a fit function is called at a line and reads the globals names: an unbound name
\* raises NameError, arrays of different lengths raise ValueError
CallOf(k, fn, line, names) ==
    LET k1 == [k EXCEPT !.last = [fn |-> fn, line |-> line,
                                  reads |-> [n \in names |-> k.env[n]]]]
    IN  IF \E n \in names : k.env[n] = Unbound THEN Fail(k1, "NameError")
        ELSE IF \E a \in names, b \in names : k.env[a].len # k.env[b].len
        THEN Fail(k1, "ValueError")
        ELSE k1

\* parameters and cov of a linear fit to the data of A or x
BindFit(k, data) ==
    IF k.exc # "" THEN k
    ELSE Step([k EXCEPT !.env.parameters = Desc(data.of, Len(global_funcs)),
                        !.env.cov = Desc(data.of, Len(global_funcs))])
StepIfOk(k) == IF k.exc # "" THEN k ELSE Step(k)

\* what running one cell does to the kernel
Exec(c, k) ==
    CASE c = "toy_data" ->
            \* N = 100; x = np.linspace(0, 4 * np.pi, N); y = ...; y_unc = rng.uniform(0.1, 0.4, N)
            Step([k EXCEPT !.env.N = Toy, !.env.x = Toy, !.env.y = Toy, !.env.y_unc = Toy])
      [] c = "design_matrix" ->
            \* A = design_matrix(funcs, x)
            IF k.env.x = Unbound THEN Fail(k, "NameError")
            ELSE Step([k EXCEPT !.env.A = k.env.x])
      [] c = "weights" ->
            \* cov_y = np.diag(y_unc**2); W = np.linalg.inv(cov_y)
            IF k.env.y_unc = Unbound THEN Fail(k, "NameError")
            ELSE Step([k EXCEPT !.env.cov_y = k.env.y_unc, !.env.W = k.env.y_unc])
      [] c = "solve" ->
            \* parameters, cov = solve_linear_least_squares(A, W, y)
            BindFit(CallOf(k, "solve_linear_least_squares", 237, {"A", "W", "y"}), k.env.A)
      [] c = "chisquare" ->
            \* chisquare_over_ndf(y, A, parameters), chisquare_over_ndf(y, A, true_parameters)
            IF k.env.parameters = Unbound THEN Fail(k, "NameError")
            ELSE StepIfOk(CallOf(k, "chisquare_over_ndf", 262, {"y", "A", "W"}))
      [] c = "fit" ->
            \* parameters, cov, chisquare_ndf = linear_least_squares(x, y, funcs, cov_y)
            BindFit(CallOf(k, "linear_least_squares", 329, {"x", "y", "cov_y", "W"}), k.env.x)
      [] c = "curve_fit_sigma" ->
            \* curve_fit(func, x, y, sigma=np.full(N, y_unc), absolute_sigma=True)
            StepIfOk(CallOf(k, "curve_fit", 411, {"x", "y", "N", "y_unc"}))
      [] c = "timeit_fit" ->
            \* linear_least_squares(x, y, funcs)
            StepIfOk(CallOf(k, "linear_least_squares", 467, {"x", "y", "W"}))
      [] c = "timeit_curve_fit" ->
            \* curve_fit(func, x, y)
            StepIfOk(CallOf(k, "curve_fit", 477, {"x", "y"}))
      [] c = "slit" ->
            \* params, cov = curve_fit(theory, df['phi'], df['I'], p0=p0), which needs as
            \* many rows as theory has parameters; x = np.linspace(-0.03, 0.03, 501)
            IF k.files.slit < 2 THEN Fail(k, "TypeError")
            ELSE Step([k EXCEPT !.env.cov = Desc("slit", 2),
                                !.env.x = Desc("grid", GridPoints)])
      [] c = "hessian" ->
            \* cov = np.linalg.inv(hesse(result.x, measured)), of the four parameters of x0
            Step([k EXCEPT !.env.cov = Desc("higgs", 4)])
      [] c = "muon_data" ->
            \* N = np.genfromtxt(...); t = np.arange(len(N) + 1) / 21.48; t = t[5:]; N = N[5:]
            IF muon_data(k.files.muon).exc = "TypeError" THEN Fail(k, "TypeError")
            ELSE Step([k EXCEPT !.env.N = Desc("muon", Len(muon_data(k.files.muon).N)),
                                !.env.t = Desc("muon", Len(muon_data(k.files.muon).t))])
      [] c = "muon_fit" ->
            \* T_MIN, T_MAX = t[0], t[-1]
            IF k.env.t = Unbound THEN Fail(k, "NameError")
            ELSE IF k.env.t.len = 0 THEN Fail(k, "IndexError")
            ELSE Step(k)

\* the rows of resources/spalt.csv
MaxRows == 3

\* a fresh kernel and the two data files
InitRun ==
    /\ W = <<>>
    /\ call = Idle
    /\ measured = <<>>
    /\ minimizer = NotRunning
    /\ result = <<>>
    /\ cov = <<>>
    /\ higgs_mass = <<>>
    /\ kernel \in {[NotStarted EXCEPT !.pc = 1, !.files = [slit |-> r, muon |-> Arr(f)]] :
                    r \in 1..MaxRows, f \in CountFiles}

\* the next cell runs; an exception stops the run
RunCell ==
    /\ kernel.pc \in 1..Len(Cells)
    /\ kernel.exc = ""
    /\ kernel' = Exec(Cells[kernel.pc], kernel)
    /\ UNCHANGED <<W, call, fitvars>>

NextRun == RunCell

SpecRun == InitRun /\ [][NextRun]_vars

\* ------------------------------------------------------- properties
IsSolve == call.fn = "solve_linear_least_squares"
IsFit == call.fn = "linear_least_squares"
Returned == call.ret.exc = ""
\* A^T W A
Normal(A, Wm) == MatMul(MatMul(Transpose(A), Wm), A)
\* cov and parameters solve the normal equations of (A, Wm, y)
SolvesNormal(A, Wm, y, ret) ==
    Let(Normal(A, Wm), LAMBDA M :
        /\ MatMul(M, ret.cov) = Eye(NCols(A))
        /\ ret.parameters = MatVec(MatMul(MatMul(ret.cov, Transpose(A)), Wm), y)
        /\ MatVec(M, ret.parameters) = MatVec(MatMul(Transpose(A), Wm), y))

OwnWeight == IF call.cov_y = <<>> THEN Eye(Len(call.y)) ELSE Inv(call.cov_y).val
\* (y - A theta)^T Wm (y - A theta) / (N - P)
ReducedChi(y, A, theta, Wm) ==
    Let(VecSub(y, MatVec(A, theta)), LAMBDA r :
        RDiv(Dot(VecMat(r, Wm), r), R(Len(y) - Len(theta))))

\* C2: the reduced chi-square linear_least_squares returns is
\* (y - A theta)^T W (y - A theta) / (N - P) with the weight matrix W of that call.
C2_ChiUsesOwnWeight ==
    IsFit /\ Returned =>
        call.ret.chi = ReducedChi(call.y, call.ret.A, call.ret.parameters, OwnWeight)

\* C3: two calls of one function with identical arguments return identical results,
\* whatever cells ran between them.
C3_PureCalls ==
    [][(call.fn # "none" /\ call'.fn = call.fn /\ call'.x = call.x /\ call'.y = call.y
        /\ call'.funcs = call.funcs /\ call'.cov_y = call.cov_y /\ call'.A = call.A
        /\ call'.Wm = call.Wm /\ call'.parameters = call.parameters)
       => call'.ret = call.ret]_vars

\* C4: the weight matrix linear_least_squares solves with is the inverse of cov_y
\* when cov_y is passed and the N x N identity when cov_y is None.
C4_LocalWeight ==
    IsFit =>
        /\ call.cov_y = <<>> => call.ret.W = Eye(Len(call.y))
        /\ call.cov_y # <<>> /\ call.ret.W # <<>> =>
              MatMul(call.cov_y, call.ret.W) = Eye(Len(call.y))
        /\ call.cov_y # <<>> /\ Det(call.cov_y)[1] # 0 => call.ret.W # <<>>

\* a fit with a covariance matrix other than the identity has run
C4_Witness ==
    /\ IsFit /\ Returned
    /\ call.cov_y # <<>>
    /\ call.ret.W # Eye(Len(call.y))

\* C5: design_matrix(funcs, x) is the Len(x) x Len(funcs) matrix with entry (i, j) =
\* funcs[j](x[i]), and it leaves funcs and x as they were.
C5_DesignMatrix ==
    call.fn = "design_matrix" =>
        /\ NRows(call.ret.A) = Len(call.x)
        /\ \A i \in 1..Len(call.x) :
              /\ Len(call.ret.A[i]) = Len(call.funcs)
              /\ \A j \in 1..Len(call.funcs) :
                    call.ret.A[i][j] = Apply(call.funcs[j], call.x[i])
        /\ call.args_after = <<call.funcs, call.x>>

\* a design matrix of two different columns and two different rows was built
C5_Witness ==
    /\ call.fn = "design_matrix"
    /\ Len(call.x) = 2 /\ Len(call.funcs) = 2
    /\ call.ret.A[1][2] # call.ret.A[2][1]
    /\ call.ret.A[1] # call.ret.A[2]

NoEstimate == call.ret.exc = "LinAlgError" /\ call.ret.parameters = <<>> /\ call.ret.cov = <<>>

\* C7: when N < P or A^T W A is not invertible, the solver fails with the singular
\* matrix error (numpy's LinAlgError) and returns no estimate and no covariance.
C7_SingularRaises ==
    IsSolve /\ (NRows(call.A) < NCols(call.A) \/ Det(Normal(call.A, call.Wm))[1] = 0)
        => NoEstimate

\* a diagonal weight matrix with a zero or a negative eigenvalue
NotPositiveDefinite(Wm) == \E i \in 1..NRows(Wm) : Wm[i][i][1] <= 0

\* C8: when W has a zero or a negative eigenvalue, the solver raises the singular
\* matrix error instead of returning an estimate.
C8_BadWeightRaises ==
    IsSolve /\ NotPositiveDefinite(call.Wm) => call.ret.exc = "LinAlgError"

\* the last minimization failed
FitFailed == ~Running /\ result # <<>> /\ ~result.success

\* C6: after a minimization that ended without converging, no step binds a covariance
\* or a parameter estimate: the covariance cell and the estimate cell do nothing.
C6_FailedFitYieldsNothing ==
    [][FitFailed => cov' = cov /\ higgs_mass' = higgs_mass]_vars

\* C9: the model cdf of the binned fit is normalised over the histogram range:
\* cdf(T_MAX, tau, p) - cdf(T_MIN, tau, p) = 1 for every tau > 0 and p in [0, 1].
C9_CdfNormalized ==
    call.fn = "cdf" => RSub(call.ret[Len(call.ret)], call.ret[1]) = One

\* C10 as stated: pdf integrates to 1 over [E_MIN, E_MAX] for every valid parameter
\* vector, each of its two densities being normalised over [E_MIN, E_MAX].
C10_PdfNormalized ==
    call.fn = "pdf" =>
        call.ret.integral = One /\ call.ret.signal = One /\ call.ret.background = One

\* C10 amended: only the exponential background is normalised over [E_MIN, E_MAX];
\* the normal signal keeps the mass m < 1 it has inside the window, so that pdf
\* integrates to 1 - p * (1 - m), which is 1 exactly when p = 0.
C10_PdfMass ==
    call.fn = "pdf" =>
        /\ call.ret.background = One
        /\ call.ret.signal = RSub(call.normal.hi, call.normal.lo)
        /\ RLess(call.ret.signal, One)
        /\ call.ret.integral = RSub(One, RMul(call.p, RSub(One, call.ret.signal)))
        /\ (call.ret.integral = One) <=> (call.p = Zero)

\* a mixture of both densities whose integral over the window stays below 1
C10_Witness ==
    /\ call.fn = "pdf"
    /\ RLess(Zero, call.p) /\ RLess(call.p, One)
    /\ RLess(call.ret.integral, One)

\* y = [1, 2, -1, 0]
ExampleY == <<R(1), R(2), R(-1), Zero>>
IsExampleFit == IsFit /\ call.x = example_x /\ call.funcs = global_funcs /\ call.cov_y = <<>>
Residual(y, A, theta) == VecSub(y, MatVec(A, theta))
Zeros(n) == Arr([i \in 1..n |-> Zero])
\* y lies in the column space of the design matrix of the four points
Consistent(y) == RAdd(y[1], y[3]) = RAdd(y[2], y[4])
Half == Rat(1, 2)

\* C11 as stated: for x = 0, pi/2, pi, 3pi/2, y = [1, 2, -1, 0] and the basis
\* {1, sin, cos}, linear_least_squares(x, y, funcs) returns parameters that solve
\* A theta = y, with zero residual and zero reduced chi-square (exact arithmetic
\* has no rounding: approximately 0 is 0).
C11_ExactSolve ==
    IsExampleFit /\ call.y = ExampleY =>
        /\ Returned
        /\ MatVec(call.ret.A, call.ret.parameters) = call.y
        /\ call.ret.chi = Zero

\* C11 amended: the solve of the unweighted fit returns parameters with zero residual
\* exactly when y1 + y3 = y2 + y4; for y = [1, 2, -1, 0] it returns (1/2, 1, 1), with
\* residual (-1/2, 1/2, -1/2, 1/2).  linear_least_squares returns them only when the
\* global W is a 4 x 4 matrix, with the reduced chi-square r^T W r / (4 - 3) of that
\* global W, and raises NameError or ValueError otherwise.
C11_LeastSquares ==
    /\ IsSolve /\ call.A = example_A =>
          /\ Returned
          /\ (Residual(call.y, call.A, call.ret.parameters) = Zeros(Len(call.y)))
                <=> Consistent(call.y)
          /\ call.y = ExampleY =>
                /\ call.ret.parameters = <<Half, One, One>>
                /\ Residual(call.y, call.A, call.ret.parameters)
                      = <<RSub(Zero, Half), Half, RSub(Zero, Half), Half>>
    /\ IsExampleFit =>
          /\ call.ret.exc \in {"", "NameError", "ValueError"}
          /\ Returned =>
                /\ call.ret.parameters
                      = solve_linear_least_squares(example_A, Eye(Len(call.y)), call.y).parameters
                /\ call.ret.chi
                      = ReducedChi(call.y, call.ret.A, call.ret.parameters, example_W)
                /\ (call.ret.chi = Zero) <=> Consistent(call.y)

\* the fit of y = [1, 2, -1, 0] has returned
C11_Witness ==
    /\ IsExampleFit /\ call.y = ExampleY /\ Returned
    /\ call.ret.parameters = <<Half, One, One>>

Ended(m) == m.state \in {"Converged", "Failed"}
\* the invocation the cell starts: at the initial guess x0, no iteration made
Started == [state |-> "Initialized", x |-> 0, nit |-> 0]

\* C12: an invocation of minimize moves Initialized -> Iterating -> Converged or Failed,
\* ending in exactly one of the two with result.success telling which; an ended
\* invocation makes no further iteration, and nothing restarts it from another
\* starting point: all that follows it is the cell run again, from the same x0.
C12_MinimizerStates ==
    [][/\ minimizer.state = "none" => minimizer' \in {minimizer, Started}
       /\ minimizer.state = "Initialized" =>
             minimizer' \in {minimizer, [minimizer EXCEPT !.state = "Iterating"]}
       /\ minimizer.state = "Iterating" =>
             /\ minimizer'.state \in {"Iterating", "Converged", "Failed"}
             /\ Ended(minimizer') =>
                   /\ minimizer'.x = minimizer.x /\ minimizer'.nit = minimizer.nit
                   /\ result'.x = minimizer.x
                   /\ result'.success = (minimizer'.state = "Converged")
       /\ Ended(minimizer) => minimizer' \in {minimizer, Started}
       /\ result' # result => minimizer.state = "Iterating" /\ Ended(minimizer')
      ]_vars

\* a minimization has ended in failure after spending its iteration budget
C12_Witness ==
    /\ minimizer.state = "Failed"
    /\ result.nit = MaxIter
    /\ ~result.success

\* the weights of a curve_fit call: 1 / sigma^2, or 1 when no sigma is passed
FitWeight == IF call.sigma = <<>> THEN Eye(Len(call.y))
             ELSE Diag(Arr([i \in 1..Len(call.y) |->
                        RDiv(One, RMul(call.sigma[i], call.sigma[i]))]))

\* C13: every curve_fit call of the notebook weights with absolute uncertainties: its
\* absolute_sigma is set and the covariance it returns is (A^T W A)^-1, not that
\* matrix multiplied by the reduced chi-square.
C13_AbsoluteSigma ==
    call.fn = "curve_fit" =>
        /\ call.site.absolute_sigma
        /\ MatMul(Normal(call.A, FitWeight), call.ret.pcov) = Eye(NCols(call.A))

StrictlyIncreasing(s) == \A i \in 1..(Len(s) - 1) : s[i] < s[i + 1]
\* edges and counts form a histogram whose range is defined
IsHistogram(h) ==
    /\ h.exc = ""
    /\ StrictlyIncreasing(h.t)
    /\ Len(h.t) = Len(h.N) + 1
    /\ h.T_MIN = h.t[1] /\ h.T_MAX = h.t[Len(h.t)]

\* C14 as stated: for every count file, after the first 5 bins are dropped the edges
\* are strictly increasing, there is one edge more than there are counts, and
\* T_MIN = t[0] and T_MAX = t[-1] are defined.
C14_HistogramInvariant ==
    call.fn = "muon_data" => IsHistogram(call.ret)

\* C14 amended: that holds for every count file of at least 5 lines, with the counts
\* of lines 6.. left and T_MIN < T_MAX when there are more than 5 lines; for an empty
\* file and for 2 to 4 lines both slices are empty and T_MIN = t[0] raises IndexError,
\* and for a file of one line len(N) raises TypeError.
C14_HistogramFromFiveLines ==
    call.fn = "muon_data" =>
        /\ Len(call.file) >= DropBins =>
              /\ IsHistogram(call.ret)
              /\ call.ret.N = SubSeq(call.file, DropBins + 1, Len(call.file))
              /\ call.ret.T_MIN = DropBins
              /\ (call.ret.T_MIN < call.ret.T_MAX) <=> (Len(call.file) > DropBins)
        /\ Len(call.file) < DropBins /\ Len(call.file) # 1 =>
              call.ret.exc = "IndexError" /\ call.ret.t = <<>> /\ call.ret.N = <<>>
        /\ Len(call.file) = 1 => call.ret.exc = "TypeError"

\* a histogram of several bins was built from a file of more than 5 lines
C14_Witness ==
    /\ call.fn = "muon_data"
    /\ Len(call.file) > DropBins + 1
    /\ call.ret.exc = "" /\ Len(call.ret.N) > 1 /\ call.ret.N[1] # call.ret.N[2]

\* C15: whenever linear_least_squares returns (N >= P, A^T W A invertible, N = P
\* included), the divisor ndf = len(y) - len(parameters) is not zero and the reduced
\* chi-square it returns is a finite number.
C15_DefinedChi ==
    IsFit /\ Returned =>
        /\ Len(call.y) - Len(call.ret.parameters) # 0
        /\ IsFinite(call.ret.chi)

\* the cells that call solve_linear_least_squares, chisquare_over_ndf,
\* linear_least_squares or curve_fit(func, ...)
CallCells == {"solve", "chisquare", "fit", "curve_fit_sigma", "timeit_fit", "timeit_curve_fit"}
\* x, N or cov no longer belongs to the 100 observations
Rebound ==
    \/ kernel.env.x # Unbound /\ kernel.env.x # Toy
    \/ kernel.env.N # Unbound /\ kernel.env.N # Toy
    \/ kernel.env.cov # Unbound /\ kernel.env.cov.of # "toy"

\* C16: in a run of the cells from top to bottom, at every call of
\* solve_linear_least_squares, chisquare_over_ndf, linear_least_squares and
\* curve_fit(func, ...) each global the call reads describes the same 100
\* observations, and once x, cov or N is rebound to other data no such call follows.
C16_SameObservations ==
    /\ \A n \in DOMAIN kernel.last.reads : kernel.last.reads[n] = Toy
    /\ Rebound => \A i \in kernel.pc..Len(Cells) : Cells[i] \notin CallCells

\* the whole notebook has run: the last call was the timing of curve_fit, and x, cov
\* and N are rebound
C16_Witness ==
    /\ kernel.pc = Len(Cells) + 1 /\ kernel.exc = ""
    /\ kernel.last.line = 477
    /\ kernel.env.x = Desc("grid", GridPoints)
    /\ kernel.env.cov.of = "higgs"
    /\ kernel.env.N.of = "muon"

====
